---- MODULE Spec2Model ----
(***************************************************************************)
(* Model of the stack lifecycle commands of pklformation: Up               *)
(* (src/src/commands/up_command.rs), Preview (src/src/commands/preview.rs) *)
(* and Destroy (src/src/commands/destroy.rs), with the pollers and         *)
(* classifiers of src/src/aws_client.rs.                                   *)
(*                                                                         *)
(* The remote service is outside the program: every status query observes  *)
(* an arbitrary status of the closed enum (or fails), every other remote   *)
(* call succeeds or fails, and every optional response field is present or *)
(* absent.  One behaviour of the model is one run of one command.          *)
(***************************************************************************)
EXTENDS Naturals, Sequences, FiniteSets

VARIABLES
    cmd,             \* the command of this run: "none", "up", "preview", "destroy"
    pc,              \* position of the run in the command's code
    ret,             \* position the active poller returns to
    poller,          \* active poller: "up", "client" (stack) or "cs" (change set)
    first_status,    \* the poller's `status` of its first query, until the
                     \* spinner's message has consumed it or the poller is called again
    status,          \* the poller's `status` inside the loop
    last_query,      \* what the poller's latest status query returned
    ptrace,          \* queries and sleeps of the current poller invocation, in order
    poll_result,     \* what the last poller invocation returned
    first_observed,  \* outcome of the first status query of the run (Destroy
                     \* binds its first poll to _wait_result and never reads it)
    wait_result,     \* `wait_result` of run(): result of the poll at invocation
    branch,          \* branch of the match taken by run()
    change_set_type, \* `change_set_type` argument of the submission
    changeset_id,    \* `changeset.id` / `change_set_id` held by the run
    stack_id,        \* `stack.stack_id()` held by Destroy
    log,             \* remote calls (other than status queries), gates and poll returns
    result,          \* "running", "Ok", "Err" or "Panic"
    error,           \* kind of the error when result = "Err"
    start_time,      \* Destroy's `start_time`, 0 before it is captured
    events,          \* the stream describe_stack_events returned
    reported,        \* the events print_resources_errors has printed
    remote,          \* status of the polled entity at the remote service, "any"
                     \* where the model leaves it open
    render_exit,     \* exit of `pkl eval`: "none" before it ran, "zero", "nonzero"
    listed,          \* the summaries list_change_sets returned
    now,             \* values of Utc::now() at the change-set submissions, in order
    names,           \* the change_set_name of each submission, in order
    earlier          \* the runs on the stack completed before this one, in
                     \* order: what each observed, how many change
                     \* requests it submitted and how it ended

vars == <<cmd, pc, ret, poller, first_status, status, last_query, ptrace,
          poll_result,
          first_observed, wait_result, branch, change_set_type,
          changeset_id, stack_id, log, result, error,
          start_time, events, reported, remote,
          render_exit, listed, now, names, earlier>>

pollVars == <<ret, poller, first_status, status, last_query, ptrace,
             poll_result>>

diagVars == <<start_time, events, reported>>

nameVars == <<now, names>>

inVars == <<render_exit, listed, nameVars, earlier>>

(***************************************************************************)
(* Bounds                                                                  *)
(***************************************************************************)
\* queries one poller invocation may issue before the model stops following it
MaxQueries == 3
\* length of the list returned by list_change_sets
MaxSummaries == 2
\* latest capture time of a run (seconds)
MaxTime == 2
\* longest event stream a Destroy run fetches
MaxEvents == 1
\* longest event stream the extractor is applied to on its own
MaxStream == 3
\* change-set submissions whose names are compared
MaxSubmissions == 2

(***************************************************************************)
(* The closed enums of the remote service                                  *)
(***************************************************************************)
StackStatus ==
    { "CreateComplete", "CreateFailed", "CreateInProgress",
      "DeleteComplete", "DeleteFailed", "DeleteInProgress",
      "ImportComplete", "ImportInProgress", "ImportRollbackComplete",
      "ImportRollbackFailed", "ImportRollbackInProgress",
      "ReviewInProgress",
      "RollbackComplete", "RollbackFailed", "RollbackInProgress",
      "UpdateComplete", "UpdateCompleteCleanupInProgress", "UpdateFailed",
      "UpdateInProgress", "UpdateRollbackComplete",
      "UpdateRollbackCompleteCleanupInProgress", "UpdateRollbackFailed",
      "UpdateRollbackInProgress" }

ChangeSetStatus ==
    { "CreateComplete", "CreateInProgress", "CreatePending",
      "DeleteComplete", "DeleteFailed", "DeleteInProgress", "DeletePending",
      "Failed" }

ExecutionStatus ==
    { "Available", "ExecuteComplete", "ExecuteFailed", "ExecuteInProgress",
      "Obsolete", "Unavailable" }

\* kinds of failure of a status query: the stack does not exist, the call
\* fails (network, auth, service), or the response lacks a field
QueryErrors == { "NotFound", "RemoteError", "MissingField" }

\* change set ids: the one a submission of this run returns, and older ones
NewId == "cs_new"
OldIds == { "cs_old1", "cs_old2" }
NoId == "no_id"

Ok(v) == [ok |-> TRUE, val |-> v]
Err(e) == [ok |-> FALSE, val |-> e]
NoResult == [ok |-> FALSE, val |-> "none"]

(***************************************************************************)
(* Classifiers                                                             *)
(***************************************************************************)
\* up_command.rs: op_in_progres
op_in_progres(st) ==
    st \in { "CreateInProgress", "DeleteInProgress", "ImportInProgress",
                 "ImportRollbackInProgress", "ReviewInProgress",
                 "RollbackInProgress", "UpdateCompleteCleanupInProgress",
                 "UpdateInProgress", "UpdateRollbackCompleteCleanupInProgress",
                 "UpdateRollbackInProgress" }

\* aws_client.rs: AwsClient::stack_op_in_progres
stack_op_in_progres(st) ==
    st \in { "CreateInProgress", "DeleteInProgress", "ImportInProgress",
                 "ImportRollbackInProgress", "RollbackInProgress",
                 "UpdateCompleteCleanupInProgress", "UpdateInProgress",
                 "UpdateRollbackCompleteCleanupInProgress",
                 "UpdateRollbackInProgress" }

\* aws_client.rs: AwsClient::change_set_op_in_progres
change_set_op_in_progres_NoDeletePending(st) ==
    st \in { "CreateInProgress", "CreatePending", "DeleteInProgress" }

change_set_op_in_progres(st) ==
    st \in { "CreateInProgress", "CreatePending", "DeleteInProgress",
                 "DeletePending" }

\* the classifier each poller applies
InProgress(p, st) ==
    CASE p = "up" -> op_in_progres(st)
      [] p = "client" -> stack_op_in_progres(st)
      [] OTHER -> change_set_op_in_progres(st)

\* the statuses of the entity poller p queries
StatusesOf(p) == IF p = "cs" THEN ChangeSetStatus ELSE StackStatus

\* the remote status is known to the model and the classifier of poller p
\* reports it as not in progress
Settled(p, st) == st \in StatusesOf(p) /\ ~InProgress(p, st)

\* what a query can observe of an entity whose statuses are S: the remote
\* status where the model fixes the status of such an entity, any status
\* of S where it leaves it open
Observed(S) == IF remote \in S THEN { remote } ELSE S

\* the errors describe_stacks can end in: an absent stack is reported as
\* not found and a stack the model knows to exist is not
StackErrors ==
    CASE remote = "absent" -> { "NotFound", "RemoteError" }
      [] remote \in StackStatus -> QueryErrors \ { "NotFound" }
      [] OTHER -> QueryErrors

\* stack_status (both copies): a status and reason, or an error
stack_status ==
    { Ok(s) : s \in IF remote = "absent" THEN {} ELSE Observed(StackStatus) }
        \cup { Err(e) : e \in StackErrors }

\* AwsClient::change_set_status: a status and reason, or an error
change_set_status ==
    { Ok(s) : s \in Observed(ChangeSetStatus) } \cup { Err(e) : e \in QueryErrors }

\* the query each poller issues
Query(p) == IF p = "cs" THEN change_set_status ELSE stack_status

(***************************************************************************)
(* Branch selection                                                        *)
(***************************************************************************)
\* variant of UpSelect whose UPDATE arm lacks ImportComplete, which then
\* falls to the arm of DeleteComplete
UpSelect_ImportCreates(res) ==
    IF ~res.ok THEN "CREATE"
    ELSE CASE res.val \in { "DeleteComplete", "ImportComplete" } -> "CREATE"
           [] res.val \in { "CreateComplete",
                            "UpdateComplete", "UpdateRollbackComplete" } -> "UPDATE"
           [] res.val \in { "CreateFailed", "RollbackComplete" } -> "RECREATE"
           [] OTHER -> "ABORT"

\* variant of UpSelect that sends DeleteComplete and a failed poll to the
\* arm that deletes the stack first
UpSelect_DeletedRecreates(res) ==
    IF ~res.ok THEN "RECREATE"
    ELSE CASE res.val \in { "CreateComplete", "ImportComplete",
                            "UpdateComplete", "UpdateRollbackComplete" } -> "UPDATE"
           [] res.val \in { "CreateFailed", "RollbackComplete",
                            "DeleteComplete" } -> "RECREATE"
           [] OTHER -> "ABORT"

\* UpCommand::run: `if wait_result.is_err()` and the match on last_status
UpSelect(res) ==
    IF ~res.ok THEN "CREATE"
    ELSE CASE res.val = "DeleteComplete" -> "CREATE"
           [] res.val \in { "CreateComplete", "ImportComplete",
                            "UpdateComplete", "UpdateRollbackComplete" } -> "UPDATE"
           [] res.val \in { "CreateFailed", "RollbackComplete" } -> "RECREATE"
           [] OTHER -> "ABORT"

\* variant of PreviewSelect whose catch-all arm previews an update
PreviewSelect_CatchAllUpdates(res) ==
    IF ~res.ok THEN "CREATE"
    ELSE CASE res.val = "DeleteComplete" -> "CREATE"
           [] res.val = "ReviewInProgress" -> "RESUME"
           [] OTHER -> "UPDATE"

\* PreviewCommand::run: `if wait_result.is_err()` and the match on last_status
PreviewSelect(res) ==
    IF ~res.ok THEN "CREATE"
    ELSE CASE res.val = "DeleteComplete" -> "CREATE"
           [] res.val \in { "CreateComplete", "ImportComplete",
                            "UpdateComplete", "UpdateRollbackComplete" } -> "UPDATE"
           [] res.val = "ReviewInProgress" -> "RESUME"
           [] OTHER -> "ABORT"

(***************************************************************************)
(* Log                                                                     *)
(***************************************************************************)
Call(op, arg) == [op |-> op, arg |-> arg]

Logged(op) == \E i \in 1..Len(log) : log[i].op = op

Count(op) == Cardinality({ i \in 1..Len(log) : log[i].op = op })

MutatingOps == { "submit", "execute", "delete_change_set", "delete_stack" }

(***************************************************************************)
(* Steps shared by the commands                                            *)
(***************************************************************************)
\* `?` on a failed call, bail!, or a failed context(): the run ends in an error
Fail(e) ==
    /\ pc' = "done"
    /\ result' = "Err"
    /\ error' = e

\* the run returns Ok(())
Finish ==
    /\ pc' = "done"
    /\ result' = "Ok"
    /\ error' = error

\* call of a poller: p is the poller, r the position it returns to
StartPoll(p, r) ==
    /\ pc' = "poll_first"
    /\ poller' = p
    /\ ret' = r
    /\ first_status' = "none"
    /\ status' = "none"
    /\ last_query' = NoResult
    /\ ptrace' = <<>>
    /\ poll_result' = NoResult

\* return of a poller with result res; its locals go out of scope
PollReturn(res) ==
    /\ pc' = ret
    /\ poll_result' = res
    /\ status' = "none"
    /\ log' = Append(log, Call(IF res.ok THEN "settled" ELSE "poll_failed", poller))

Queries == Cardinality({ i \in 1..Len(ptrace) : ptrace[i] = "query" })

Sleeps == Cardinality({ i \in 1..Len(ptrace) : ptrace[i] = "sleep" })

(***************************************************************************)
(* Init                                                                    *)
(***************************************************************************)
Init ==
    /\ cmd = "none"
    /\ pc = "idle"
    /\ ret = "none"
    /\ poller = "none"
    /\ first_status = "none"
    /\ status = "none"
    /\ last_query = NoResult
    /\ ptrace = <<>>
    /\ poll_result = NoResult
    /\ first_observed = "none"
    /\ wait_result = NoResult
    /\ branch = "none"
    /\ change_set_type = "none"
    /\ changeset_id = NoId
    /\ stack_id = NoId
    /\ log = <<>>
    /\ result = "running"
    /\ error = "none"
    /\ render_exit = "none"
    /\ listed = <<>>
    /\ now = <<>>
    /\ names = <<>>
    /\ earlier = <<>>
    /\ start_time = 0
    /\ events = <<>>
    /\ reported = <<>>
    /\ remote = "any"

(***************************************************************************)
(* The pollers: wait_until_op_in_progress (up_command.rs),                 *)
(* wait_until_stack_op_in_progress and                                     *)
(* wait_until_change_set_op_in_progress (aws_client.rs)                    *)
(***************************************************************************)
\* variant: the loop is entered whatever the first status is
PollFirst_EntersLoopWhenSettled ==
    /\ pc = "poll_first"
    /\ \E out \in Query(poller) :
        /\ ptrace' = Append(ptrace, "query")
        /\ last_query' = out
        /\ first_status' = IF out.ok THEN out.val ELSE "none"
        /\ first_observed' = IF first_observed = "none" /\ cmd # "destroy"
                               THEN out.val
                               ELSE first_observed
        /\ IF ~out.ok
             THEN PollReturn(out)
             ELSE /\ pc' = "poll_loop_query"
                  /\ UNCHANGED <<status, poll_result, log>>
    /\ UNCHANGED <<cmd, remote, inVars, diagVars, ret, poller, wait_result, branch,
                   change_set_type, changeset_id, stack_id, result, error>>

\* the first query and the `if` on its status
PollFirst ==
    /\ pc = "poll_first"
    /\ \E out \in Query(poller) :
        /\ ptrace' = Append(ptrace, "query")
        /\ last_query' = out
        /\ first_status' = IF out.ok THEN out.val ELSE "none"
        /\ first_observed' = IF first_observed = "none" /\ cmd # "destroy"
                               THEN out.val
                               ELSE first_observed
        /\ IF ~out.ok
             THEN PollReturn(out)
             ELSE IF InProgress(poller, out.val)
                    THEN /\ pc' = "poll_loop_query"
                         /\ UNCHANGED <<status, poll_result, log>>
                    ELSE PollReturn(out)
    /\ UNCHANGED <<cmd, remote, inVars, diagVars, ret, poller, wait_result, branch,
                   change_set_type, changeset_id, stack_id, result, error>>

\* variant: a failed query inside the loop is tried again
PollLoopQuery_RetriesOnError ==
    /\ pc = "poll_loop_query"
    /\ Queries < MaxQueries \/ Settled(poller, remote)
    /\ first_status' = "none"
    /\ \E out \in Query(poller) :
        /\ ptrace' = Append(ptrace, "query")
        /\ last_query' = out
        /\ IF ~out.ok
             THEN /\ pc' = "poll_loop_query"
                  /\ UNCHANGED <<status, poll_result, log>>
             ELSE /\ status' = out.val
                  /\ pc' = "poll_sleep"
                  /\ UNCHANGED <<poll_result, log>>
    /\ UNCHANGED <<cmd, remote, inVars, diagVars, ret, poller, first_observed, wait_result,
                   branch, change_set_type, changeset_id, stack_id, result, error>>

\* the query at the top of the loop body (before the first one, the
\* spinner's message takes the status of the first query)
PollLoopQuery ==
    /\ pc = "poll_loop_query"
    /\ Queries < MaxQueries \/ Settled(poller, remote)
    /\ first_status' = "none"
    /\ \E out \in Query(poller) :
        /\ ptrace' = Append(ptrace, "query")
        /\ last_query' = out
        /\ IF ~out.ok
             THEN PollReturn(out)
             ELSE /\ status' = out.val
                  /\ pc' = "poll_sleep"
                  /\ UNCHANGED <<poll_result, log>>
    /\ UNCHANGED <<cmd, remote, inVars, diagVars, ret, poller, first_observed, wait_result,
                   branch, change_set_type, changeset_id, stack_id, result, error>>

\* variant: the poller gives up after one sleep, settled or not
PollSleep_ReturnsAnyway ==
    /\ pc = "poll_sleep"
    /\ ptrace' = Append(ptrace, "sleep")
    /\ PollReturn(Ok(status))
    /\ UNCHANGED <<cmd, remote, inVars, diagVars, ret, poller, first_status, last_query,
                   first_observed, wait_result, branch,
                   change_set_type, changeset_id, stack_id, result, error>>

\* thread::sleep(pool_interval), then the test of the status just queried
PollSleep ==
    /\ pc = "poll_sleep"
    /\ ptrace' = Append(ptrace, "sleep")
    /\ IF ~InProgress(poller, status)
         THEN PollReturn(Ok(status))
         ELSE /\ pc' = "poll_loop_query"
              /\ UNCHANGED <<status, poll_result, log>>
    /\ UNCHANGED <<cmd, remote, inVars, diagVars, ret, poller, first_status, last_query,
                   first_observed, wait_result, branch,
                   change_set_type, changeset_id, stack_id, result, error>>

(***************************************************************************)
(* Up: up_command.rs                                                       *)
(***************************************************************************)
runVars == <<first_observed, wait_result, branch, change_set_type,
             changeset_id, stack_id>>

StartUp ==
    /\ pc = "idle"
    /\ cmd' = "up"
    /\ pc' = "up_render"
    /\ UNCHANGED <<pollVars, runVars, log, result, error,
                   remote, diagVars, inVars>>

\* run(): pkl eval; a non-zero exit bails with the stderr text
UpRender ==
    /\ pc = "up_render"
    /\ \E success \in BOOLEAN :
        /\ render_exit' = IF success THEN "zero" ELSE "nonzero"
        /\ IF success
             THEN /\ StartPoll("up", "up_branch")
                  /\ UNCHANGED <<result, error>>
             ELSE /\ Fail("Render")
                  /\ UNCHANGED pollVars
    /\ UNCHANGED <<cmd, remote, listed, nameVars, earlier, diagVars, runVars, log>>

\* run(): the branch on wait_result
UpBranch ==
    /\ pc = "up_branch"
    /\ wait_result' = poll_result
    /\ branch' = UpSelect(poll_result)
    /\ CASE branch' = "CREATE" ->
              /\ pc' = "create_or_update"
              /\ change_set_type' = "Create"
              /\ UNCHANGED <<result, error>>
         [] branch' = "UPDATE" ->
              /\ pc' = "create_or_update"
              /\ change_set_type' = "Update"
              /\ UNCHANGED <<result, error>>
         [] branch' = "RECREATE" ->
              /\ pc' = "recreate"
              /\ UNCHANGED <<change_set_type, result, error>>
         [] OTHER ->
              /\ Finish
              /\ UNCHANGED change_set_type
    /\ UNCHANGED <<cmd, remote, inVars, diagVars, pollVars, first_observed, changeset_id, stack_id, log>>

\* variant of create_or_update that goes on with RECREATE only when the
\* deletion has settled in DeleteComplete
CreateOrUpdateSubmit_OnlyAfterDeleteComplete ==
    /\ pc = "create_or_update"
    /\ IF branch = "RECREATE" /\ poll_result.ok
            /\ poll_result.val # "DeleteComplete"
         THEN /\ Fail("BadStatus")
              /\ UNCHANGED <<log, changeset_id>>
         ELSE /\ log' = Append(log, Call("submit", change_set_type))
              /\ \E sent \in BOOLEAN, id \in { NewId, NoId } :
                  IF sent
                    THEN /\ changeset_id' = id
                         /\ pc' = "ask_confirm"
                         /\ UNCHANGED <<result, error>>
                    ELSE /\ Fail("RemoteError")
                         /\ UNCHANGED changeset_id
    /\ UNCHANGED <<cmd, remote, inVars, diagVars, pollVars, first_observed, wait_result, branch,
                   change_set_type, stack_id>>

\* variant: in recreate the error of the poll after delete() is returned
CreateOrUpdateSubmit_AbortsAfterFailedPoll ==
    /\ pc = "create_or_update"
    /\ IF branch = "RECREATE" /\ ~poll_result.ok
         THEN /\ Fail(poll_result.val)
              /\ UNCHANGED <<log, changeset_id>>
         ELSE /\ log' = Append(log, Call("submit", change_set_type))
              /\ \E sent \in BOOLEAN, id \in { NewId, NoId } :
                  IF sent
                    THEN /\ changeset_id' = id
                         /\ pc' = "ask_confirm"
                         /\ UNCHANGED <<result, error>>
                    ELSE /\ Fail("RemoteError")
                         /\ UNCHANGED changeset_id
    /\ UNCHANGED <<cmd, remote, inVars, diagVars, pollVars, first_observed, wait_result, branch,
                   change_set_type, stack_id>>

\* variant: a failed create_change_set is sent again
CreateOrUpdateSubmit_RetriesOnFailure ==
    /\ pc = "create_or_update"
    /\ log' = Append(log, Call("submit", change_set_type))
    /\ \E sent \in BOOLEAN, id \in { NewId, NoId } :
        IF sent
          THEN /\ changeset_id' = id
               /\ pc' = "ask_confirm"
               /\ UNCHANGED <<result, error>>
          ELSE /\ pc' = "create_or_update"
               /\ UNCHANGED <<changeset_id, result, error>>
    /\ UNCHANGED <<cmd, remote, inVars, diagVars, pollVars, first_observed, wait_result, branch,
                   change_set_type, stack_id>>

\* create_or_update: create_change_set; afterwards the run holds changeset.id
CreateOrUpdateSubmit ==
    /\ pc = "create_or_update"
    /\ log' = Append(log, Call("submit", change_set_type))
    /\ \E sent \in BOOLEAN, id \in { NewId, NoId } :
        IF sent
          THEN /\ changeset_id' = id
               /\ pc' = "ask_confirm"
               /\ UNCHANGED <<result, error>>
          ELSE /\ Fail("RemoteError")
               /\ UNCHANGED changeset_id
    /\ UNCHANGED <<cmd, remote, inVars, diagVars, pollVars, first_observed, wait_result, branch,
                   change_set_type, stack_id>>

\* create_or_update: `if ask_confirm()`; declined, it returns Ok(()) and run()
\* goes on to its last wait_until_op_in_progress
CreateOrUpdateConfirm ==
    /\ pc = "ask_confirm"
    /\ \E answer \in BOOLEAN :
        /\ log' = Append(log, Call("gate", IF answer THEN "accept" ELSE "decline"))
        /\ IF answer
             THEN /\ pc' = "execute_change_set"
                  /\ UNCHANGED pollVars
             ELSE StartPoll("up", "up_classify")
    /\ UNCHANGED <<cmd, remote, inVars, diagVars, runVars, result, error>>

\* variant: the change set is executed only after the stack is seen to be
\* in the status the poll at invocation returned
CreateOrUpdateExecute_ChecksStatusFirst ==
    /\ pc = "execute_change_set"
    /\ wait_result.ok => remote \in { "any", wait_result.val }
    /\ IF changeset_id = NoId
         THEN /\ Fail("MissingField")
              /\ UNCHANGED <<pollVars, log>>
         ELSE /\ log' = Append(log, Call("execute", changeset_id))
              /\ \E sent \in BOOLEAN :
                  IF sent
                    THEN /\ StartPoll("up", "up_classify")
                         /\ UNCHANGED <<result, error>>
                    ELSE /\ Fail("RemoteError")
                         /\ UNCHANGED pollVars
    /\ UNCHANGED <<cmd, remote, inVars, diagVars, runVars>>

\* create_or_update: execute_change_set(changeset.id.context(..)?), then back
\* in run() the last wait_until_op_in_progress
CreateOrUpdateExecute ==
    /\ pc = "execute_change_set"
    /\ IF changeset_id = NoId
         THEN /\ Fail("MissingField")
              /\ UNCHANGED <<pollVars, log>>
         ELSE /\ log' = Append(log, Call("execute", changeset_id))
              /\ \E sent \in BOOLEAN :
                  IF sent
                    THEN /\ StartPoll("up", "up_classify")
                         /\ UNCHANGED <<result, error>>
                    ELSE /\ Fail("RemoteError")
                         /\ UNCHANGED pollVars
    /\ UNCHANGED <<cmd, remote, inVars, diagVars, runVars>>

\* recreate: delete(), then wait_until_op_in_progress whose result `let _ =`
\* drops, then create_or_update(Create)
Recreate ==
    /\ pc = "recreate"
    /\ log' = Append(log, Call("delete_stack", "stack"))
    /\ \E sent \in BOOLEAN :
        IF sent
          THEN /\ StartPoll("up", "create_or_update")
               /\ change_set_type' = "Create"
               /\ UNCHANGED <<result, error>>
          ELSE /\ Fail("RemoteError")
               /\ UNCHANGED <<pollVars, change_set_type>>
    /\ UNCHANGED <<cmd, remote, inVars, diagVars, first_observed, wait_result, branch, changeset_id,
                   stack_id>>

\* variant: a final status other than CreateComplete and UpdateComplete is
\* returned as an error
UpClassify_FailsOnBadStatus ==
    /\ pc = "up_classify"
    /\ IF poll_result.ok
         THEN IF poll_result.val \in { "CreateComplete", "UpdateComplete" }
                THEN Finish
                ELSE Fail("BadStatus")
         ELSE Fail(poll_result.val)
    /\ UNCHANGED <<cmd, remote, inVars, diagVars, pollVars, runVars, log>>

\* run(): `?` on the last poll and the match on op_status
UpClassify ==
    /\ pc = "up_classify"
    /\ IF poll_result.ok THEN Finish ELSE Fail(poll_result.val)
    /\ UNCHANGED <<cmd, remote, inVars, diagVars, pollVars, runVars, log>>

(***************************************************************************)
(* Preview: preview.rs                                                     *)
(***************************************************************************)
\* what list_change_sets can return: summaries with optional id and
\* optional execution status
Summary ==
    [change_set_id : OldIds \cup { NoId },
     execution_status : ExecutionStatus \cup { "None" }]

Summaries ==
    UNION { [1..n -> Summary] : n \in 0..MaxSummaries }

\* variant: the last summary whose execution status is Available
pending_change_set_Last(summaries) ==
    LET avail == { i \in 1..Len(summaries) :
                       summaries[i].execution_status = "Available" }
    IN  IF avail = {} THEN <<>>
        ELSE <<summaries[CHOOSE i \in avail : \A j \in avail : i >= j]>>

\* AwsClient::pending_change_set: the first summary whose execution status
\* is Available, if any
pending_change_set(summaries) ==
    LET avail == { i \in 1..Len(summaries) :
                       summaries[i].execution_status = "Available" }
    IN  IF avail = {} THEN <<>>
        ELSE <<summaries[CHOOSE i \in avail : \A j \in avail : i <= j]>>

\* run(): wait_until_stack_op_in_progress
StartPreview ==
    /\ pc = "idle"
    /\ cmd' = "preview"
    /\ StartPoll("client", "preview_branch")
    /\ UNCHANGED <<runVars, log, result, error,
                   remote, diagVars, inVars>>

\* run(): the branch on wait_result
PreviewBranch ==
    /\ pc = "preview_branch"
    /\ wait_result' = poll_result
    /\ branch' = PreviewSelect(poll_result)
    /\ CASE branch' = "CREATE" ->
              /\ pc' = "eval_template"
              /\ change_set_type' = "Create"
              /\ UNCHANGED <<result, error>>
         [] branch' = "UPDATE" ->
              /\ pc' = "eval_template"
              /\ change_set_type' = "Update"
              /\ UNCHANGED <<result, error>>
         [] branch' = "RESUME" ->
              /\ pc' = "preview_exisint_change_set"
              /\ UNCHANGED <<change_set_type, result, error>>
         [] OTHER ->
              /\ Finish
              /\ UNCHANGED change_set_type
    /\ UNCHANGED <<cmd, remote, inVars, diagVars, pollVars, first_observed, changeset_id, stack_id, log>>

\* variant: the renderer's exit status is not looked at
PreviewEvalTemplate_IgnoresExit ==
    /\ pc = "eval_template"
    /\ \E success \in BOOLEAN :
        /\ render_exit' = IF success THEN "zero" ELSE "nonzero"
        /\ pc' = "preview_new_change_set"
        /\ UNCHANGED <<result, error>>
    /\ UNCHANGED <<cmd, remote, listed, nameVars, earlier, diagVars, pollVars, runVars, log>>

\* preview_new_change_set: eval_template
PreviewEvalTemplate ==
    /\ pc = "eval_template"
    /\ \E success \in BOOLEAN :
        /\ render_exit' = IF success THEN "zero" ELSE "nonzero"
        /\ IF success
             THEN /\ pc' = "preview_new_change_set"
                  /\ UNCHANGED <<result, error>>
             ELSE Fail("Render")
    /\ UNCHANGED <<cmd, remote, listed, nameVars, earlier, diagVars, pollVars, runVars, log>>

\* preview_new_change_set: create_or_update_change_set, the id of the
\* response, then wait_until_change_set_op_in_progress
PreviewNewChangeSet ==
    /\ pc = "preview_new_change_set"
    /\ log' = Append(log, Call("submit", change_set_type))
    /\ \E sent \in BOOLEAN, id \in { NewId, NoId } :
        IF ~sent
          THEN /\ Fail("RemoteError")
               /\ UNCHANGED <<pollVars, changeset_id>>
          ELSE IF id = NoId
                 THEN /\ Fail("MissingField")
                      /\ UNCHANGED <<pollVars, changeset_id>>
                 ELSE /\ changeset_id' = id
                      /\ StartPoll("cs", "describe_new_change_set")
                      /\ UNCHANGED <<result, error>>
    /\ UNCHANGED <<cmd, remote, inVars, diagVars, first_observed, wait_result, branch, change_set_type,
                   stack_id>>

\* variant of PreviewDescribeNew that applies the change set it has shown
PreviewDescribeNew_Executes ==
    /\ pc = "describe_new_change_set"
    /\ IF ~poll_result.ok
         THEN /\ Fail(poll_result.val)
              /\ UNCHANGED log
         ELSE /\ log' = log \o << Call("describe_change_set", changeset_id),
                                  Call("execute", changeset_id) >>
              /\ \E sent \in BOOLEAN :
                  IF sent THEN Finish ELSE Fail("RemoteError")
    /\ UNCHANGED <<cmd, remote, inVars, diagVars, pollVars, runVars>>

\* preview_new_change_set: `?` on the poll, describe_change_set, print
PreviewDescribeNew ==
    /\ pc = "describe_new_change_set"
    /\ IF ~poll_result.ok
         THEN /\ Fail(poll_result.val)
              /\ UNCHANGED log
         ELSE /\ log' = Append(log, Call("describe_change_set", changeset_id))
              /\ \E sent \in BOOLEAN :
                  IF sent THEN Finish ELSE Fail("RemoteError")
    /\ UNCHANGED <<cmd, remote, inVars, diagVars, pollVars, runVars>>

\* preview_exisint_change_set: pending_change_set and the id of the summary
PreviewExistingChangeSet ==
    /\ pc = "preview_exisint_change_set"
    /\ log' = Append(log, Call("list_change_sets", "stack"))
    /\ \E sent \in BOOLEAN, summaries \in Summaries :
        LET pending == pending_change_set(summaries) IN
        IF ~sent
          THEN /\ Fail("RemoteError")
               /\ UNCHANGED <<changeset_id, listed>>
          ELSE /\ listed' = summaries
               /\ IF pending = <<>>
                    THEN /\ Fail("NotFound")
                         /\ UNCHANGED changeset_id
                    ELSE IF pending[1].change_set_id = NoId
                           THEN /\ Fail("MissingField")
                                /\ UNCHANGED changeset_id
                           ELSE /\ changeset_id' = pending[1].change_set_id
                                /\ pc' = "describe_pending_change_set"
                                /\ UNCHANGED <<result, error>>
    /\ UNCHANGED <<cmd, remote, render_exit, nameVars, earlier, diagVars, pollVars,
                   first_observed, wait_result, branch, change_set_type, stack_id>>

\* preview_exisint_change_set: describe_change_set, print
PreviewDescribePending ==
    /\ pc = "describe_pending_change_set"
    /\ log' = Append(log, Call("describe_change_set", changeset_id))
    /\ \E sent \in BOOLEAN :
        IF sent THEN Finish ELSE Fail("RemoteError")
    /\ UNCHANGED <<cmd, remote, inVars, diagVars, pollVars, runVars>>

(***************************************************************************)
(* Stack events and the extraction of the failures of one attempt          *)
(* (destroy.rs, display.rs)                                                *)
(***************************************************************************)
\* values of SystemTime::now() at the capture
Times == 1..MaxTime

\* StackEvent::timestamp(): an Option, here a sequence of at most one time
Timestamps == { <<>> } \cup { <<t>> : t \in 1..(MaxTime + 2) }

\* StackEvent::resource_status(): an Option over ResourceStatus
ResourceStatus ==
    { "CreateFailed", "UpdateFailed", "DeleteFailed", "UpdateComplete", "None" }

StackEvent == [timestamp : Timestamps, resource_status : ResourceStatus]

\* the event streams of at most n events
Streams(n) == UNION { [1..k -> StackEvent] : k \in 0..n }

\* p.timestamp().map(|t| t.as_secs_f64()).unwrap_or_default()
timestamp_secs(p) == IF p.timestamp = <<>> THEN 0 ELSE p.timestamp[1]

\* variant: events stamped exactly at the capture time are kept
after_start_time_Inclusive(evs, t) ==
    SelectSeq(evs, LAMBDA p : timestamp_secs(p) >= t)

\* run(): .filter(|p| timestamp > start_time)
after_start_time(evs, t) ==
    SelectSeq(evs, LAMBDA p : timestamp_secs(p) > t)

\* print_resources_errors: the events it prints, in the order it prints them
print_resources_errors(evs) ==
    SelectSeq(evs, LAMBDA p : p.resource_status \in { "UpdateFailed", "CreateFailed" })

(***************************************************************************)
(* Destroy: destroy.rs                                                     *)
(***************************************************************************)
\* AwsClient::describe_stack: the stack, with its optional id and optional
\* pending change set reference, or an error
describe_stack ==
    { [ok |-> TRUE, stack_id |-> sid, change_set_id |-> cid] :
          sid \in { "stack_id", NoId }, cid \in { "cs_old1", NoId } }
    \cup { [ok |-> FALSE, stack_id |-> NoId, change_set_id |-> NoId] }

\* run(): wait_until_stack_op_in_progress, its result bound to _wait_result
StartDestroy ==
    /\ pc = "idle"
    /\ cmd' = "destroy"
    /\ StartPoll("client", "start_time")
    /\ UNCHANGED <<runVars, log, result, error,
                   remote, diagVars, inVars>>

\* variant: an error of the wait at invocation is returned
DestroyStartTime_AbortsOnWaitError ==
    /\ pc = "start_time"
    /\ IF poll_result.ok
         THEN /\ log' = Append(log, Call("capture_time", "start_time"))
              /\ start_time' \in Times
              /\ pc' = "describe_stack"
              /\ UNCHANGED <<result, error>>
         ELSE /\ Fail(poll_result.val)
              /\ UNCHANGED <<log, start_time>>
    /\ UNCHANGED <<cmd, remote, inVars, events, reported, pollVars, runVars>>

\* run(): start_time = SystemTime::now()
DestroyStartTime ==
    /\ pc = "start_time"
    /\ log' = Append(log, Call("capture_time", "start_time"))
    /\ start_time' \in Times
    /\ pc' = "describe_stack"
    /\ UNCHANGED <<cmd, remote, inVars, events, reported, pollVars, runVars, result, error>>

\* run(): describe_stack, print_stack, `if let Some(change_set_id)`
DestroyDescribeStack ==
    /\ pc = "describe_stack"
    /\ log' = Append(log, Call("describe_stack", "stack"))
    /\ \E out \in describe_stack :
        IF ~out.ok
          THEN /\ Fail("RemoteError")
               /\ UNCHANGED <<stack_id, changeset_id>>
          ELSE /\ stack_id' = out.stack_id
               /\ changeset_id' = out.change_set_id
               /\ pc' = IF out.change_set_id # NoId
                          THEN "describe_change_set" ELSE "confirm"
               /\ UNCHANGED <<result, error>>
    /\ UNCHANGED <<cmd, remote, inVars, diagVars, pollVars, first_observed, wait_result, branch,
                   change_set_type>>

\* run(): describe_change_set of the pending change set, print_change_set
DestroyDescribeChangeSet ==
    /\ pc = "describe_change_set"
    /\ log' = Append(log, Call("describe_change_set", changeset_id))
    /\ \E sent \in BOOLEAN :
        IF sent
          THEN /\ pc' = "confirm"
               /\ UNCHANGED <<result, error>>
          ELSE Fail("RemoteError")
    /\ UNCHANGED <<cmd, remote, inVars, diagVars, pollVars, runVars>>

\* run(): self.display.ask_confirm(..); the statement drops the answer
DestroyConfirm ==
    /\ pc = "confirm"
    /\ \E answer \in BOOLEAN :
        log' = Append(log, Call("gate", IF answer THEN "accept" ELSE "decline"))
    /\ pc' = "delete_stack"
    /\ UNCHANGED <<cmd, remote, inVars, diagVars, pollVars, runVars, result, error>>

\* variant: the time is taken once more after the stack's deletion was
\* requested
DestroyDeleteStack_CapturesAfter ==
    /\ pc = "delete_stack"
    /\ IF stack_id = NoId
         THEN /\ pc' = "done"
              /\ result' = "Panic"
              /\ UNCHANGED <<pollVars, log, error, start_time>>
         ELSE /\ log' = log \o << Call("delete_stack", stack_id),
                                  Call("capture_time", "start_time") >>
              /\ start_time' \in Times
              /\ \E sent \in BOOLEAN :
                  IF sent
                    THEN /\ StartPoll("client", "destroy_classify")
                         /\ UNCHANGED <<result, error>>
                    ELSE /\ Fail("RemoteError")
                         /\ UNCHANGED pollVars
    /\ UNCHANGED <<cmd, remote, inVars, events, reported, runVars>>

\* run(): delete_stack(stack.stack_id().unwrap()), then
\* wait_until_stack_op_in_progress
DestroyDeleteStack ==
    /\ pc = "delete_stack"
    /\ IF stack_id = NoId
         THEN /\ pc' = "done"
              /\ result' = "Panic"
              /\ UNCHANGED <<pollVars, log, error>>
         ELSE /\ log' = Append(log, Call("delete_stack", stack_id))
              /\ \E sent \in BOOLEAN :
                  IF sent
                    THEN /\ StartPoll("client", "destroy_classify")
                         /\ UNCHANGED <<result, error>>
                    ELSE /\ Fail("RemoteError")
                         /\ UNCHANGED pollVars
    /\ UNCHANGED <<cmd, remote, inVars, diagVars, runVars>>

\* run(): the match on op_status.  The source binds (op_status, _reason) to
\* the poll's Result without `?`; an error of that poll ends the run here.
DestroyClassify ==
    /\ pc = "destroy_classify"
    /\ IF ~poll_result.ok
         THEN Fail(poll_result.val)
         ELSE IF poll_result.val = "DeleteComplete"
                THEN Finish
                ELSE /\ pc' = "describe_stack_events"
                     /\ UNCHANGED <<result, error>>
    /\ UNCHANGED <<cmd, remote, inVars, diagVars, pollVars, runVars, log>>

\* run(): describe_stack_events, the filter on start_time, print_resources_errors
DestroyEvents ==
    /\ pc = "describe_stack_events"
    /\ log' = Append(log, Call("describe_stack_events", "stack"))
    /\ \/ \E evs \in Streams(MaxEvents) :
            /\ events' = evs
            /\ reported' = print_resources_errors(after_start_time(evs, start_time))
            /\ Finish
       \/ /\ Fail("RemoteError")
          /\ UNCHANGED <<events, reported>>
    /\ UNCHANGED <<cmd, remote, inVars, start_time, pollVars, runVars>>

(***************************************************************************)
(* Properties                                                              *)
(***************************************************************************)
UpdateStatuses ==
    { "CreateComplete", "ImportComplete", "UpdateComplete",
      "UpdateRollbackComplete" }

\* settled statuses that the branch table maps to none of CREATE, UPDATE,
\* RECREATE and RESUME
AbortStatuses ==
    { "DeleteFailed", "ImportRollbackComplete", "ImportRollbackFailed",
      "RollbackFailed", "UpdateFailed", "UpdateRollbackFailed" }

Accepted == Call("gate", "accept")
Declined == Call("gate", "decline")

\* entry e is in the log before position i
Before(e, i) == \E j \in 1..(i - 1) : log[j] = e

\* an entry of operation op is in the log before position i
OpBefore(op, i) == \E j \in 1..(i - 1) : log[j].op = op

NoMutation == \A i \in 1..Len(log) : log[i].op \notin MutatingOps

\* C1: when the status Up's poll at invocation settles on is CreateComplete,
\* ImportComplete, UpdateComplete or UpdateRollbackComplete, Up takes the
\* UPDATE branch: it issues exactly one submission, of kind Update, and no
\* delete_stack.
C1_UpdateSelected ==
    (cmd = "up" /\ wait_result.ok /\ wait_result.val \in UpdateStatuses) =>
        /\ branch = "UPDATE"
        /\ ~Logged("delete_stack")
        /\ \A i \in 1..Len(log) : log[i].op = "submit" => log[i].arg = "Update"
        /\ Count("submit") <= 1
        /\ (pc # "create_or_update" => Count("submit") = 1)

C1_Witness ==
    /\ cmd = "up"
    /\ wait_result = Ok("ImportComplete")
    /\ log[Len(log)] = Call("submit", "Update")

\* C2: when the stack is not found, or the status Up's poll at invocation
\* settles on is DeleteComplete, Up takes the CREATE branch: it issues a
\* submission of kind Create and no delete_stack.
C2_CreateSelected ==
    (/\ cmd = "up"
     /\ branch # "none"
     /\ \/ wait_result = Err("NotFound")
        \/ wait_result = Ok("DeleteComplete")) =>
        /\ branch = "CREATE"
        /\ ~Logged("delete_stack")
        /\ \A i \in 1..Len(log) : log[i].op = "submit" => log[i].arg = "Create"
        /\ (pc # "create_or_update" => Count("submit") = 1)

C2_Witness ==
    /\ cmd = "up"
    /\ wait_result = Err("NotFound")
    /\ log[Len(log)] = Call("submit", "Create")

\* C3: when the first status Up observes is ReviewInProgress, Up takes the
\* RESUME branch, and every submission of the run is preceded by the query
\* for the pending change set (stated for the runs whose poll at invocation
\* returned a status).
C3_ResumeQueriesPending ==
    (cmd = "up" /\ first_observed = "ReviewInProgress" /\ wait_result.ok) =>
        /\ branch = "RESUME"
        /\ \A i \in 1..Len(log) :
              log[i].op = "submit" => OpBefore("list_change_sets", i)

\* C4: in Up every delete_stack is preceded by a confirmation gate that was
\* answered with acceptance.
C4_RecreateDeletesAfterAcceptance ==
    cmd = "up" =>
        \A i \in 1..Len(log) :
            log[i].op = "delete_stack" => Before(Accepted, i)

\* C5: in Destroy every delete_stack is preceded by a confirmation gate that
\* was answered with acceptance, so a declined gate is followed by no
\* delete_stack.
C5_DestroyDeletesAfterAcceptance ==
    cmd = "destroy" =>
        \A i \in 1..Len(log) :
            log[i].op = "delete_stack" =>
                (Before(Accepted, i) /\ ~Before(Declined, i))

\* C6: when the status the poll at invocation settles on maps to none of
\* CREATE, UPDATE, RECREATE and RESUME, Up and Preview issue no submission,
\* execution or deletion, and return Ok.
C6_AbortMutatesNothing ==
    (/\ cmd \in { "up", "preview" }
     /\ wait_result.ok
     /\ wait_result.val \in AbortStatuses) =>
        /\ branch = "ABORT"
        /\ NoMutation
        /\ pc = "done"
        /\ result = "Ok"

C6_Witness ==
    /\ cmd = "up"
    /\ wait_result = Ok("UpdateFailed")
    /\ pc = "done"

\* C7: an Up run on a stack that was not found, whose confirmation was
\* declined, has deleted the change set it submitted, has not executed it,
\* and ends Ok (stated for the runs whose last poll returned a status).
C7_DeclinedCreateDeletesChangeSet ==
    (/\ cmd = "up"
     /\ wait_result = Err("NotFound")
     /\ \E i \in 1..Len(log) : log[i] = Declined
     /\ pc = "done"
     /\ poll_result.ok) =>
        /\ Logged("delete_change_set")
        /\ ~Logged("execute")
        /\ result = "Ok"

\* C8: in Up every execute_change_set names the change set submitted in this
\* run and is preceded by a poll of that change set that returned a settled
\* status and by an accepted confirmation gate.
C8_ExecuteAfterPollAndAcceptance ==
    cmd = "up" =>
        \A i \in 1..Len(log) :
            log[i].op = "execute" =>
                /\ log[i].arg = NewId
                /\ OpBefore("submit", i)
                /\ Before(Call("settled", "cs"), i)
                /\ Before(Accepted, i)

\* C9: a Preview run issues no execute_change_set, no delete_change_set and
\* no delete_stack, whatever it observes.
C9_PreviewNeverExecutesOrDeletes ==
    cmd = "preview" =>
        \A i \in 1..Len(log) :
            log[i].op \notin { "execute", "delete_change_set", "delete_stack" }

C9_Witness ==
    /\ cmd = "preview"
    /\ pc = "done"
    /\ result = "Ok"
    /\ Logged("submit")
    /\ log[Len(log)].op = "describe_change_set"

\* C10: on the same observation Preview and Up take the same branch among
\* CREATE, UPDATE, RESUME and ABORT: whenever a run of one command takes one
\* of these branches, or the other command's selection gives one of them,
\* the branch taken is the one the other command's selection gives for the
\* result of the poll at invocation.
C10_SameSelection ==
    branch # "none" =>
        /\ (cmd = "up" /\ branch # "RECREATE" =>
                branch = PreviewSelect(wait_result))
        /\ (cmd = "preview" /\ UpSelect(wait_result) # "RECREATE" =>
                branch = UpSelect(wait_result))

\* the statuses of a final poll that count as success in Up
UpSuccessStatuses == { "CreateComplete", "UpdateComplete" }

\* the events of the fetched stream that are stamped after the capture
\* time and record a failure of one of the kinds in `kinds`
FailuresSince(kinds) ==
    SelectSeq(events, LAMBDA p : /\ p.timestamp # <<>>
                                 /\ p.timestamp[1] > start_time
                                 /\ p.resource_status \in kinds)

\* C18: in a run that extracts diagnostics, every mutating call is
\* preceded by the capture of the time boundary and no capture follows a
\* mutating call.
C18_BoundaryCapturedBeforeMutation ==
    Logged("describe_stack_events") =>
        \A i \in 1..Len(log) :
            log[i].op \in MutatingOps =>
                /\ OpBefore("capture_time", i)
                /\ \A j \in (i + 1)..Len(log) : log[j].op # "capture_time"

\* a Destroy run that deleted the stack and then reported a failure
C18_Witness ==
    /\ cmd = "destroy"
    /\ pc = "done"
    /\ Logged("delete_stack")
    /\ Logged("describe_stack_events")
    /\ reported # <<>>

\* C19: after Up's final poll, a status outside {CreateComplete,
\* UpdateComplete} makes Up fetch the stack events and report those
\* stamped after the capture time with status CreateFailed or UpdateFailed;
\* a status inside the set makes Up return success without fetching events.
C19_UpReportsFailuresAfterFinalPoll ==
    (cmd = "up" /\ pc = "done" /\ ret = "up_classify" /\ poll_result.ok
       /\ result = "Ok")
        => IF poll_result.val \in UpSuccessStatuses
             THEN ~Logged("describe_stack_events")
             ELSE /\ Logged("describe_stack_events")
                  /\ Logged("capture_time")
                  /\ reported = FailuresSince({ "CreateFailed", "UpdateFailed" })

\* C20: a Destroy run whose final poll settles on DeleteFailed, and whose
\* event fetch succeeds, returns Ok and reports the resource failures of
\* the delete attempt recorded after the capture time.
C20_DestroyReportsDeleteFailures ==
    (cmd = "destroy" /\ pc = "done" /\ poll_result = Ok("DeleteFailed")
       /\ Logged("describe_stack_events") /\ error = "none")
        => /\ result = "Ok"
           /\ \A i \in 1..Len(FailuresSince({ "DeleteFailed" })) :
                \E j \in 1..Len(reported) :
                    reported[j] = FailuresSince({ "DeleteFailed" })[i]

\* the program positions inside a poller
PollPcs == { "poll_first", "poll_loop_query", "poll_sleep" }

\* the latest query of the current (or last) poller invocation failed
QueryFailed == ~last_query.ok /\ last_query # NoResult

\* the last entry of the poller's trace
LastStep == IF ptrace = <<>> THEN "none" ELSE ptrace[Len(ptrace)]

\* C11: in every poller (Up's, the client's stack poller, the change-set
\* poller), when the first queried status is not in progress the poller
\* has returned that status after exactly one query and no sleep.
C11_SettledFirstReturnsAtOnce ==
    (first_status # "none" /\ ~InProgress(poller, first_status))
        => /\ pc \notin PollPcs
           /\ poll_result = Ok(first_status)
           /\ ptrace = <<"query">>
           /\ Queries = 1 /\ Sleeps = 0

\* a change-set poll that found the change set already failed
C11_Witness ==
    /\ poller = "cs"
    /\ first_status = "Failed"
    /\ poll_result = Ok("Failed")
    /\ ptrace = <<"query">>

\* C12: when the first status is in progress, the poller returns at the
\* first query whose status is not in progress: it returns that query's
\* status and nothing (no sleep, no query) lies between that query and
\* the return.
C12_ReturnsAtSettledQuery ==
    (poll_result.ok /\ Len(ptrace) > 1)
        => /\ poll_result = last_query
           /\ ~InProgress(poller, poll_result.val)
           /\ LastStep = "query"

\* C13: when a status query of a poller fails (the first or one inside
\* the loop), the poller has returned that error and the failed query is
\* the last thing it did: no later query, no sleep.
C13_QueryErrorReturnsAtOnce ==
    QueryFailed
        => /\ pc \notin PollPcs
           /\ poll_result = last_query
           /\ LastStep = "query"

\* a query inside the loop failed, after a sleep
C13_Witness ==
    /\ QueryFailed
    /\ Queries > 1
    /\ Sleeps > 0
    /\ poll_result = last_query

\* the statuses the stack pollers are to treat as in progress
StackInProgressTable ==
    { "CreateInProgress", "DeleteInProgress", "ImportInProgress",
      "ImportRollbackInProgress", "RollbackInProgress",
      "UpdateCompleteCleanupInProgress", "UpdateInProgress",
      "UpdateRollbackCompleteCleanupInProgress", "UpdateRollbackInProgress" }

\* C15: every stack poller enters its wait loop after the first query
\* exactly for the nine in-progress statuses; on ReviewInProgress it
\* returns without waiting.
C15_StackPollersUseTable ==
    (poller \in { "up", "client" } /\ first_status # "none")
        => /\ (pc = "poll_loop_query") <=> (first_status \in StackInProgressTable)
           /\ first_status = "ReviewInProgress" => ptrace = <<"query">>

\* the statuses the change-set poller is to treat as in progress
ChangeSetInProgressTable ==
    { "CreateInProgress", "CreatePending", "DeleteInProgress", "DeletePending" }

\* C16: the change-set poller enters its wait loop after the first query
\* exactly for CreateInProgress, CreatePending, DeleteInProgress and
\* DeletePending; on every other status it has returned that status.
C16_ChangeSetPollerUsesTable ==
    (poller = "cs" /\ first_status # "none")
        => /\ (pc = "poll_loop_query") <=> (first_status \in ChangeSetInProgressTable)
           /\ first_status \notin ChangeSetInProgressTable
                => poll_result = Ok(first_status)

\* the change-set poller waiting on a change set that is being deleted
C16_Witness ==
    /\ poller = "cs"
    /\ first_status = "DeletePending"
    /\ pc = "poll_loop_query"

\* the last entry of the log
LastCall == IF log = <<>> THEN Call("none", "none") ELSE log[Len(log)]

\* the run is past the final poll of Up or Destroy and that poll returned a
\* status
FinalPollSettled ==
    /\ cmd \in { "up", "destroy" }
    /\ ret = (IF cmd = "up" THEN "up_classify" ELSE "destroy_classify")
    /\ poll_result.ok

\* C21: when the final poll of Up or Destroy returns a status, whatever it
\* is, the run ends Ok unless the remote call that follows it (Destroy's
\* describe_stack_events) fails; an error result of Up or Destroy comes
\* from a failed render, a failed remote call or a missing response field
\* and never directly follows a poll that returned a status.
C21_UnsuccessfulStatusIsNotAnError ==
    /\ (FinalPollSettled /\ pc = "done")
          => \/ result = "Ok"
             \/ /\ result = "Err"
                /\ error = "RemoteError"
                /\ LastCall.op = "describe_stack_events"
    /\ (cmd \in { "up", "destroy" } /\ result = "Err")
          => /\ error \in { "Render", "RemoteError", "MissingField", "NotFound" }
             /\ LastCall.op # "settled"

\* an Up run whose final poll settled on UpdateFailed has returned Ok
C21_Witness ==
    /\ cmd = "up"
    /\ pc = "done"
    /\ ret = "up_classify"
    /\ poll_result = Ok("UpdateFailed")
    /\ result = "Ok"

\* the poll whose return is entry i of the log is one of the two whose
\* result the code drops: Destroy's wait at invocation and the poll after
\* RECREATE's delete_stack
BestEffortPoll(i) ==
    \/ cmd = "destroy" /\ i = 1
    \/ cmd = "up" /\ i > 1 /\ log[i - 1].op = "delete_stack"

\* C22: apart from the two best-effort polls, a failed remote call ends
\* the run with an error and is the last remote call of the run; this
\* includes a poll at invocation that fails for another reason than the
\* stack not existing.
C22_FailedCallAborts ==
    /\ \A i \in 1..Len(log) :
          (log[i].op = "poll_failed" /\ ~BestEffortPoll(i)
             /\ ~(i = 1 /\ first_observed = "NotFound"))
            => /\ i = Len(log)
               /\ pc = "done" => result = "Err"
    /\ (cmd \in { "up", "preview" } /\ ~wait_result.ok
          /\ wait_result.val # "none" /\ wait_result.val # "NotFound")
            => /\ pc = "done" => result = "Err"
               /\ LastCall.op = "poll_failed"
               /\ NoMutation

\* the calls to the remote service that the log records
RemoteOps ==
    MutatingOps \cup { "list_change_sets", "describe_change_set",
                       "describe_stack", "describe_stack_events" }

\* C23: in one run of Up, Preview or Destroy every mutating remote call
\* (submit, execute, delete change set, delete stack) is issued at most
\* once, and a remote call that failed is the last call of the run: it is
\* not issued again.
C23_NoRetries ==
    /\ \A op \in MutatingOps : Count(op) <= 1
    /\ (result = "Err" /\ error = "RemoteError" /\ LastCall.op \in RemoteOps)
          => /\ pc = "done"
             /\ Count(LastCall.op) = 1

\* a RECREATE run that deleted the stack, submitted and executed, each once
C23_Witness ==
    /\ cmd = "up"
    /\ pc = "done"
    /\ Count("delete_stack") = 1
    /\ Count("submit") = 1
    /\ Count("execute") = 1

\* entry i of the log is the failed return of the poll that follows
\* RECREATE's delete_stack
FailedPollAfterDelete(i) ==
    /\ cmd = "up"
    /\ i > 1
    /\ log[i].op = "poll_failed"
    /\ log[i - 1].op = "delete_stack"

\* C26: in RECREATE an error of the poll after delete_stack does not end
\* the run: the next thing Up does is submit the Create change set; before
\* the confirmation, RECREATE ends in an error only when delete_stack or
\* the submission fails.
C26_RecreateToleratesPollError ==
    /\ \A i \in 1..Len(log) :
          FailedPollAfterDelete(i)
            => IF i = Len(log)
                 THEN pc = "create_or_update" /\ result = "running"
                 ELSE log[i + 1] = Call("submit", "Create")
    /\ (branch = "RECREATE" /\ result = "Err" /\ ~Logged("gate"))
          => LastCall.op \in { "delete_stack", "submit" }

\* the poll after the deletion failed and the Create change set was submitted
C26_Witness ==
    /\ branch = "RECREATE"
    /\ Len(log) >= 4
    /\ FailedPollAfterDelete(3)
    /\ log[4] = Call("submit", "Create")

\* place of entry i of Destroy's log in the order of the steps of the run
DestroyStep(i) ==
    CASE log[i].op \in { "settled", "poll_failed" } -> IF i = 1 THEN 0 ELSE 6
      [] log[i].op = "capture_time" -> 1
      [] log[i].op = "describe_stack" -> 2
      [] log[i].op = "describe_change_set" -> 3
      [] log[i].op = "gate" -> 4
      [] log[i].op = "delete_stack" -> 5
      [] log[i].op = "describe_stack_events" -> 7
      [] OTHER -> 8

\* C27: Destroy's wait at invocation is best-effort (after its error the
\* run still describes the stack), and the run does its steps in the order
\* wait, describe stack, describe the pending change set if any,
\* confirmation gate, delete stack, poll, classify.
C27_DestroyStepOrder ==
    cmd = "destroy" =>
        /\ \A i \in 1..Len(log) :
              /\ DestroyStep(i) <= 7
              /\ \A j \in (i + 1)..Len(log) : DestroyStep(i) < DestroyStep(j)
        /\ Logged("gate") => Logged("describe_stack")
        /\ Logged("delete_stack") => Logged("gate")
        /\ (\E i \in 2..Len(log) : DestroyStep(i) = 6) => Logged("delete_stack")
        /\ Logged("describe_stack_events")
              => \E i \in 2..Len(log) : log[i] = Call("settled", "client")
        /\ pc = "done" => Logged("describe_stack")
        /\ (pc = "done" /\ result = "Ok")
              => \E i \in 2..Len(log) : log[i] = Call("settled", "client")

\* a Destroy run whose wait at invocation failed and that went through
\* every step
C27_Witness ==
    /\ cmd = "destroy"
    /\ pc = "done"
    /\ result = "Ok"
    /\ log[1] = Call("poll_failed", "client")
    /\ Logged("describe_change_set")
    /\ Logged("delete_stack")
    /\ Logged("describe_stack_events")

\* positions of the listed change sets whose execution status is Available
AvailableListed ==
    { k \in 1..Len(listed) : listed[k].execution_status = "Available" }

\* C28: in the RESUME branch the change set the command goes on with is
\* the first listed one whose execution status is Available; when the
\* list holds none, the run fails with NotFound (and only then), having
\* issued no mutating call.
C28_ResumeSelectsFirstAvailable ==
    branch = "RESUME" =>
        /\ NoMutation
        /\ changeset_id # NoId
              => \E k \in AvailableListed :
                    /\ listed[k].change_set_id = changeset_id
                    /\ \A j \in AvailableListed : k <= j
        /\ (pc = "done" /\ LastCall.op = "list_change_sets"
              /\ AvailableListed = {} /\ error # "RemoteError")
              => result = "Err" /\ error = "NotFound"
        /\ error = "NotFound" => AvailableListed = {}

\* two listed change sets are available; the run goes on with the first
C28_Witness ==
    /\ branch = "RESUME"
    /\ pc = "describe_pending_change_set"
    /\ AvailableListed = { 1, 2 }
    /\ listed[1].change_set_id # listed[2].change_set_id
    /\ changeset_id = listed[1].change_set_id

\* C29: when the template renderer exits non-zero, the run of Up or
\* Preview has ended in the error made of the renderer's stderr, and it
\* has issued no submission, execution or deletion.
C29_RenderFailureAborts ==
    render_exit = "nonzero" =>
        /\ cmd \in { "up", "preview" }
        /\ pc = "done"
        /\ result = "Err"
        /\ error = "Render"
        /\ NoMutation

\* a Preview run that had selected UPDATE when the renderer failed
C29_Witness ==
    /\ cmd = "preview"
    /\ branch = "UPDATE"
    /\ render_exit = "nonzero"
    /\ result = "Err"

\* C30: in one poller invocation whose queries succeed exactly one sleep
\* lies between any two consecutive queries: no two queries follow each
\* other directly, and a poller that has returned has slept once less than
\* it has queried.
C30_OneSleepBetweenQueries ==
    last_query.ok =>
        /\ \A i \in 1..(Len(ptrace) - 1) :
              ~(ptrace[i] = "query" /\ ptrace[i + 1] = "query")
        /\ (pc \notin PollPcs /\ ptrace # <<>>) => Sleeps + 1 = Queries

\* entry i of the log is the return, with a settled status, of the poll
\* that follows RECREATE's delete_stack
SettledPollAfterDelete(i) ==
    /\ cmd = "up"
    /\ i > 1
    /\ log[i] = Call("settled", "up")
    /\ log[i - 1].op = "delete_stack"

\* C33: in RECREATE, once delete_stack has succeeded and the poll after it
\* has returned a settled status, the Create change set is submitted, and
\* not before: whatever the status the deletion settled in, DeleteComplete
\* or another one such as DeleteFailed, the next thing Up does is the
\* submission with type Create.
C33_RecreateSubmitsWhateverDeleteSettledIn ==
    \A i \in 1..Len(log) :
        SettledPollAfterDelete(i)
          => /\ \A j \in 1..i : log[j].op # "submit"
             /\ IF i = Len(log)
                  THEN /\ pc = "create_or_update"
                       /\ result = "running"
                       /\ change_set_type = "Create"
                  ELSE log[i + 1] = Call("submit", "Create")

\* the deletion settled in DeleteFailed and the Create change set has just
\* been submitted
C33_Witness ==
    /\ branch = "RECREATE"
    /\ pc = "ask_confirm"
    /\ poll_result = Ok("DeleteFailed")
    /\ Len(log) = 4
    /\ SettledPollAfterDelete(3)
    /\ log[4] = Call("submit", "Create")

(***************************************************************************)
(* Specification                                                           *)
(***************************************************************************)
Next ==
    \/ PollFirst
    \/ PollLoopQuery
    \/ PollSleep
    \/ StartUp
    \/ UpRender
    \/ UpBranch
    \/ CreateOrUpdateSubmit
    \/ CreateOrUpdateConfirm
    \/ CreateOrUpdateExecute
    \/ Recreate
    \/ UpClassify
    \/ StartPreview
    \/ PreviewBranch
    \/ PreviewEvalTemplate
    \/ PreviewNewChangeSet
    \/ PreviewDescribeNew
    \/ PreviewExistingChangeSet
    \/ PreviewDescribePending
    \/ StartDestroy
    \/ DestroyStartTime
    \/ DestroyDescribeStack
    \/ DestroyDescribeChangeSet
    \/ DestroyConfirm
    \/ DestroyDeleteStack
    \/ DestroyClassify
    \/ DestroyEvents

Spec == Init /\ [][Next]_vars

(***************************************************************************)
(* One poller invocation against a remote status that changes by itself     *)
(***************************************************************************)
\* a poller has just been called; the remote entity has some status
PollInit ==
    /\ cmd = "none"
    /\ pc = "poll_first"
    /\ ret = "returned"
    /\ poller \in { "up", "client", "cs" }
    /\ remote \in StatusesOf(poller)
    /\ first_status = "none"
    /\ status = "none"
    /\ last_query = NoResult
    /\ ptrace = <<>>
    /\ poll_result = NoResult
    /\ first_observed = "none"
    /\ wait_result = NoResult
    /\ branch = "none"
    /\ change_set_type = "none"
    /\ changeset_id = NoId
    /\ stack_id = NoId
    /\ log = <<>>
    /\ result = "running"
    /\ error = "none"
    /\ render_exit = "none"
    /\ listed = <<>>
    /\ now = <<>>
    /\ names = <<>>
    /\ earlier = <<>>
    /\ start_time = 0
    /\ events = <<>>
    /\ reported = <<>>

\* the remote operation moves on; once it has left the in-progress
\* statuses it stays where it is
RemoteChange ==
    /\ pc \in PollPcs
    /\ InProgress(poller, remote)
    /\ \E s \in StatusesOf(poller) \ { remote } : remote' = s
    /\ UNCHANGED <<cmd, pc, pollVars, runVars, log, result, error, diagVars,
                   inVars>>

PollNext ==
    \/ PollFirst
    \/ PollLoopQuery
    \/ PollSleep
    \/ RemoteChange

\* the poller is sequential blocking code: a query that can return
\* returns, a sleep ends
PollFairness ==
    /\ WF_vars(PollFirst)
    /\ WF_vars(PollLoopQuery)
    /\ WF_vars(PollSleep)

PollSpec == PollInit /\ [][PollNext]_vars /\ PollFairness

\* C14: once the remote status has left the in-progress statuses (and
\* stays out), the poller eventually returns; and the poller returns a
\* status only when the remote status has left them: while the remote
\* status stays in progress it does not return.
C14_ReturnsIffRemoteSettles ==
    /\ Settled(poller, remote) ~> (pc = "returned")
    /\ [](pc = "returned" /\ poll_result.ok
            => Settled(poller, remote) /\ poll_result.val = remote)

\* the poller waited while the remote status was in progress and returned
\* once it had settled
C14_Witness ==
    /\ pc = "returned"
    /\ poll_result.ok
    /\ Settled(poller, remote)
    /\ Queries = MaxQueries
    /\ Sleeps > 1

(***************************************************************************)
(* The extraction applied to any event stream and capture time             *)
(***************************************************************************)
\* the events have been fetched; the capture time is some earlier value
DiagInit ==
    /\ cmd = "destroy"
    /\ pc = "print_resources_errors"
    /\ start_time \in Times
    /\ events \in Streams(MaxStream)
    /\ reported = <<>>
    /\ remote = "any"
    /\ ret = "none"
    /\ poller = "none"
    /\ first_status = "none"
    /\ status = "none"
    /\ last_query = NoResult
    /\ ptrace = <<>>
    /\ poll_result = NoResult
    /\ first_observed = "none"
    /\ wait_result = NoResult
    /\ branch = "none"
    /\ change_set_type = "none"
    /\ changeset_id = NoId
    /\ stack_id = NoId
    /\ log = <<>>
    /\ result = "running"
    /\ error = "none"
    /\ render_exit = "none"
    /\ listed = <<>>
    /\ now = <<>>
    /\ names = <<>>
    /\ earlier = <<>>

\* the filter on start_time followed by print_resources_errors
Extract ==
    /\ pc = "print_resources_errors"
    /\ reported' = print_resources_errors(after_start_time(events, start_time))
    /\ Finish
    /\ UNCHANGED <<cmd, remote, inVars, start_time, events, pollVars, runVars, log>>

DiagNext == Extract

DiagSpec == DiagInit /\ [][DiagNext]_vars

\* an event that is a creation or update failure stamped after time t
FailureAfter(p, t) ==
    /\ p.timestamp # <<>>
    /\ p.timestamp[1] > t
    /\ p.resource_status \in { "CreateFailed", "UpdateFailed" }

RECURSIVE Emitted(_, _)
\* the failures after t of a stream, taken from its head to its end
Emitted(evs, t) ==
    IF evs = <<>> THEN <<>>
    ELSE IF FailureAfter(Head(evs), t)
           THEN <<Head(evs)>> \o Emitted(Tail(evs), t)
           ELSE Emitted(Tail(evs), t)

\* the stream [(t-1, CreateFailed), (t+1, CreateFailed), (t+2, UpdateComplete)]
ExampleStream(t) ==
    << [timestamp |-> <<t - 1>>, resource_status |-> "CreateFailed"],
       [timestamp |-> <<t + 1>>, resource_status |-> "CreateFailed"],
       [timestamp |-> <<t + 2>>, resource_status |-> "UpdateComplete"] >>

\* C17: for every event stream and boundary t the extractor emits exactly
\* the events with resource status CreateFailed or UpdateFailed and a
\* timestamp strictly greater than t, in the order of the stream; for
\* [(t-1, CreateFailed), (t+1, CreateFailed), (t+2, UpdateComplete)] it
\* emits exactly the t+1 event.
C17_ExtractorEmitsFailuresAfterBoundary ==
    pc = "done"
        => /\ reported = Emitted(events, start_time)
           /\ events = ExampleStream(start_time)
                => reported = << ExampleStream(start_time)[2] >>

\* the extractor has run on the example stream
C17_Witness ==
    /\ pc = "done"
    /\ events = ExampleStream(start_time)
    /\ reported = << [timestamp |-> <<start_time + 1>>,
                      resource_status |-> "CreateFailed"] >>

(***************************************************************************)
(* The name given to a change set at its submission                        *)
(* (create_or_update, create_or_update_change_set)                         *)
(***************************************************************************)
\* seconds and nanoseconds of the instants tried: around the minute, hour
\* and day boundaries, and around the microsecond and millisecond
SampleSecs == { 0, 1, 59, 60, 3599, 3600, 86399, 86400 }

SampleNanos == { 0, 1, 999, 1000, 1001, 999999, 1000000, 999999999 }

\* Utc::now(): whole seconds and the nanoseconds since the last whole second
Instant == [secs : SampleSecs, nanos : SampleNanos]

\* variant: the fraction is printed in milliseconds
change_set_name_Millis(stack_name, t) ==
    << stack_name,
       t.secs \div 86400,
       (t.secs % 86400) \div 3600,
       (t.secs % 3600) \div 60,
       t.secs % 60,
       t.nanos \div 1000000 >>

\* format!("{}-{}", stack_name, now.format("%Y%m%d-%H%M%S-%f")): the stack
\* name, the date (as its day number), hour, minute, second, and %f, the
\* nanoseconds since the last whole second
change_set_name(stack_name, t) ==
    << stack_name,
       t.secs \div 86400,
       (t.secs % 86400) \div 3600,
       (t.secs % 3600) \div 60,
       t.secs % 60,
       t.nanos >>

\* nothing has been submitted yet
NameInit ==
    /\ cmd = "none"
    /\ pc = "idle"
    /\ now = <<>>
    /\ names = <<>>
    /\ earlier = <<>>
    /\ render_exit = "none"
    /\ listed = <<>>
    /\ remote = "any"
    /\ ret = "none"
    /\ poller = "none"
    /\ first_status = "none"
    /\ status = "none"
    /\ last_query = NoResult
    /\ ptrace = <<>>
    /\ poll_result = NoResult
    /\ first_observed = "none"
    /\ wait_result = NoResult
    /\ branch = "none"
    /\ change_set_type = "none"
    /\ changeset_id = NoId
    /\ stack_id = NoId
    /\ log = <<>>
    /\ result = "running"
    /\ error = "none"
    /\ start_time = 0
    /\ events = <<>>
    /\ reported = <<>>

\* one submission for the stack: the name is made from the time it is made at
NameSubmission ==
    /\ Len(now) < MaxSubmissions
    /\ \E t \in Instant :
        /\ now' = Append(now, t)
        /\ names' = Append(names, change_set_name("stack", t))
    /\ UNCHANGED <<cmd, pc, remote, render_exit, listed, earlier, pollVars, runVars, log,
                   result, error, diagVars>>

NameNext == NameSubmission

NameSpec == NameInit /\ [][NameNext]_vars

\* instant a is at least one microsecond before instant b
MicrosBefore(a, b) ==
    \/ b.secs > a.secs + 1
    \/ b.secs = a.secs + 1 /\ (1000000000 - a.nanos) + b.nanos >= 1000
    \/ b.secs = a.secs /\ b.nanos >= a.nanos + 1000

\* C24: two submissions for one stack made at instants that are at least
\* one microsecond apart get different names.
C24_NamesDifferAcrossMicroseconds ==
    \A i, j \in 1..Len(now) :
        (MicrosBefore(now[i], now[j]) \/ MicrosBefore(now[j], now[i]))
            => names[i] # names[j]

\* two submissions one microsecond apart within the same second
C24_Witness ==
    /\ Len(names) = 2
    /\ now[1].secs = now[2].secs
    /\ now[2].nanos = now[1].nanos + 1000
    /\ names[1] # names[2]

(***************************************************************************)
(* Up and Destroy against a stack that a third party changes too           *)
(***************************************************************************)
\* the stack has some status when the command is invoked
RaceInit ==
    /\ cmd = "none"
    /\ pc = "idle"
    /\ remote \in StackStatus
    /\ now = <<>>
    /\ names = <<>>
    /\ earlier = <<>>
    /\ render_exit = "none"
    /\ listed = <<>>
    /\ ret = "none"
    /\ poller = "none"
    /\ first_status = "none"
    /\ status = "none"
    /\ last_query = NoResult
    /\ ptrace = <<>>
    /\ poll_result = NoResult
    /\ first_observed = "none"
    /\ wait_result = NoResult
    /\ branch = "none"
    /\ change_set_type = "none"
    /\ changeset_id = NoId
    /\ stack_id = NoId
    /\ log = <<>>
    /\ result = "running"
    /\ error = "none"
    /\ start_time = 0
    /\ events = <<>>
    /\ reported = <<>>

\* somebody else changes the stack in the window between the return of a
\* poll and the command's next call: the first change after that poll
ThirdParty ==
    /\ cmd \in { "up", "destroy" }
    /\ pc \notin PollPcs \cup { "idle", "done" }
    /\ poll_result = Ok(remote)
    /\ \E s \in StackStatus \ { remote } : remote' = s
    /\ UNCHANGED <<cmd, pc, pollVars, runVars, log, result, error, diagVars,
                   inVars>>

RaceNext ==
    \/ PollFirst
    \/ PollLoopQuery
    \/ PollSleep
    \/ StartUp
    \/ UpRender
    \/ UpBranch
    \/ CreateOrUpdateSubmit
    \/ CreateOrUpdateConfirm
    \/ CreateOrUpdateExecute
    \/ Recreate
    \/ UpClassify
    \/ StartDestroy
    \/ DestroyStartTime
    \/ DestroyDescribeStack
    \/ DestroyDescribeChangeSet
    \/ DestroyConfirm
    \/ DestroyDeleteStack
    \/ DestroyClassify
    \/ DestroyEvents
    \/ ThirdParty

RaceSpec == RaceInit /\ [][RaceNext]_vars

\* C25: with a third party changing the stack, nothing stops Up or Destroy
\* from issuing a mutating call while the stack's status differs from the
\* one the preceding poll returned: at each position where a mutating call
\* is issued the call goes ahead whatever the status of the stack now is.
C25_MutationNotGuardedByStatus ==
    /\ pc = "create_or_update" => ENABLED CreateOrUpdateSubmit
    /\ pc = "execute_change_set" => ENABLED CreateOrUpdateExecute
    /\ pc = "recreate" => ENABLED Recreate
    /\ pc = "delete_stack" => ENABLED DestroyDeleteStack

\* Up has just executed its update change set although the stack is no
\* longer in the status its poll returned
C25_Witness ==
    /\ cmd = "up"
    /\ branch = "UPDATE"
    /\ LastCall.op = "execute"
    /\ pc = "poll_first"
    /\ wait_result = Ok("UpdateComplete")
    /\ remote = "DeleteInProgress"

(***************************************************************************)
(* One Up run against a stack whose operation goes on by itself            *)
(***************************************************************************)
\* the loop of the poller past the MaxQueries queries that ptrace records:
\* the query at the top of the loop body, as PollLoopQuery with ptrace left
\* as it is
PollLoopQueryOn ==
    /\ pc = "poll_loop_query"
    /\ Queries >= MaxQueries
    /\ ~Settled(poller, remote)
    /\ \E out \in Query(poller) :
        /\ last_query' = out
        /\ IF ~out.ok
             THEN PollReturn(out)
             ELSE /\ status' = out.val
                  /\ pc' = "poll_sleep_on"
                  /\ UNCHANGED <<poll_result, log>>
    /\ UNCHANGED <<cmd, remote, inVars, diagVars, ret, poller, first_status, ptrace,
                   first_observed, wait_result, branch, change_set_type,
                   changeset_id, stack_id, result, error>>

\* the sleep and the test that follow it, as PollSleep with ptrace left as
\* it is
PollSleepOn ==
    /\ pc = "poll_sleep_on"
    /\ IF ~InProgress(poller, status)
         THEN PollReturn(Ok(status))
         ELSE /\ pc' = "poll_loop_query"
              /\ UNCHANGED <<status, poll_result, log>>
    /\ UNCHANGED <<cmd, remote, inVars, diagVars, ret, poller, first_status, last_query,
                   ptrace, first_observed, wait_result, branch,
                   change_set_type, changeset_id, stack_id, result, error>>

UpNext ==
    \/ StartUp
    \/ UpRender
    \/ UpBranch
    \/ CreateOrUpdateSubmit
    \/ CreateOrUpdateConfirm
    \/ CreateOrUpdateExecute
    \/ Recreate
    \/ UpClassify
    \/ PollFirst
    \/ PollLoopQuery
    \/ PollSleep
    \/ PollLoopQueryOn
    \/ PollSleepOn
    \/ RemoteChange

\* Up is sequential blocking code: the renderer exits, every remote call
\* returns, the operator answers the gate, every sleep ends
UpFairness ==
    /\ WF_vars(StartUp)
    /\ WF_vars(UpRender)
    /\ WF_vars(UpBranch)
    /\ WF_vars(CreateOrUpdateSubmit)
    /\ WF_vars(CreateOrUpdateConfirm)
    /\ WF_vars(CreateOrUpdateExecute)
    /\ WF_vars(Recreate)
    /\ WF_vars(UpClassify)
    /\ WF_vars(PollFirst)
    /\ WF_vars(PollLoopQuery)
    /\ WF_vars(PollSleep)
    /\ WF_vars(PollLoopQueryOn)
    /\ WF_vars(PollSleepOn)

UpLiveSpec == RaceInit /\ [][UpNext]_vars /\ UpFairness

\* C31: an Up run whose stack eventually reaches and stays in a status
\* outside the nine in-progress statuses (ReviewInProgress being such a
\* status) terminates.
C31_UpTerminates ==
    <>[](remote \notin StackInProgressTable) => <>(pc = "done")

\* the same, for a stack that settles in another status than
\* ReviewInProgress
UpTerminatesOutsideReview ==
    <>[](remote \notin StackInProgressTable \cup { "ReviewInProgress" })
        => <>(pc = "done")

(***************************************************************************)
(* Preview run again and again on one stack, nobody else acting on it      *)
(***************************************************************************)
MaxRuns == 3

\* the stack does not exist before the first run
SeqInit ==
    /\ cmd = "none"
    /\ pc = "idle"
    /\ remote = "absent"
    /\ earlier = <<>>
    /\ now = <<>>
    /\ names = <<>>
    /\ render_exit = "none"
    /\ listed = <<>>
    /\ ret = "none"
    /\ poller = "none"
    /\ first_status = "none"
    /\ status = "none"
    /\ last_query = NoResult
    /\ ptrace = <<>>
    /\ poll_result = NoResult
    /\ first_observed = "none"
    /\ wait_result = NoResult
    /\ branch = "none"
    /\ change_set_type = "none"
    /\ changeset_id = NoId
    /\ stack_id = NoId
    /\ log = <<>>
    /\ result = "running"
    /\ error = "none"
    /\ start_time = 0
    /\ events = <<>>
    /\ reported = <<>>

\* the run's create_or_update_change_set reached the service, which then
\* holds the change request
Created == \E i \in 1..Len(log) :
    /\ log[i].op = "submit"
    /\ ~(i = Len(log) /\ error = "RemoteError")

\* the process has exited and the operator invokes Preview on the stack
\* again: a Create change request made for an absent stack has left the
\* stack in ReviewInProgress, and the new process starts from nothing
NextRun ==
    /\ pc = "done"
    /\ cmd = "preview"
    /\ Len(earlier) + 1 < MaxRuns
    /\ earlier' = Append(earlier, [ observed |-> wait_result,
                                    submits |-> Count("submit"),
                                    created |-> IF Created THEN 1 ELSE 0,
                                    result |-> result ])
    /\ remote' = IF remote = "absent" /\ Created
                   THEN "ReviewInProgress" ELSE remote
    /\ cmd' = "none"
    /\ pc' = "idle"
    /\ ret' = "none"
    /\ poller' = "none"
    /\ first_status' = "none"
    /\ status' = "none"
    /\ last_query' = NoResult
    /\ ptrace' = <<>>
    /\ poll_result' = NoResult
    /\ first_observed' = "none"
    /\ wait_result' = NoResult
    /\ branch' = "none"
    /\ change_set_type' = "none"
    /\ changeset_id' = NoId
    /\ stack_id' = NoId
    /\ log' = <<>>
    /\ result' = "running"
    /\ error' = "none"
    /\ render_exit' = "none"
    /\ listed' = <<>>
    /\ UNCHANGED <<nameVars, diagVars>>

SeqNext ==
    \/ StartPreview
    \/ PreviewBranch
    \/ PreviewEvalTemplate
    \/ PreviewNewChangeSet
    \/ PreviewDescribeNew
    \/ PreviewExistingChangeSet
    \/ PreviewDescribePending
    \/ PollFirst
    \/ PollLoopQuery
    \/ PollSleep
    \/ NextRun

SeqSpec == SeqInit /\ [][SeqNext]_vars

RECURSIVE CreatedBy(_)
\* the change requests the runs of e created
CreatedBy(e) ==
    IF e = <<>> THEN 0 ELSE e[1].created + CreatedBy(Tail(e))

\* the first run found no stack, made its change request and completed
FirstRunLeftReview ==
    /\ earlier # <<>>
    /\ earlier[1].observed = Err("NotFound")
    /\ earlier[1].created = 1
    /\ earlier[1].result = "Ok"

\* a Preview run that has observed ReviewInProgress has submitted nothing
ObservedReviewSubmitsNothing ==
    cmd = "preview" /\ wait_result = Ok("ReviewInProgress")
        => Count("submit") = 0

\* C32: a Preview run that observes ReviewInProgress submits no change
\* request, so once a run on an absent stack has left the stack in
\* ReviewInProgress no later Preview run submits a change request, and at
\* most one change request is created over the whole sequence of runs.
C32_OneChangeRequestOverRuns ==
    /\ ObservedReviewSubmitsNothing
    /\ FirstRunLeftReview =>
        /\ Count("submit") = 0
        /\ CreatedBy(earlier) = 1

====
